---- MODULE Spec2Model ----
(***************************************************************************)
(* A model of the two notebooks of jsoma/words.                            *)
(*                                                                         *)
(* Scraping notebook: the three LangChain tools (tunefind_search,          *)
(* get_shows_from_season, get_songs_from_episode) and the agent sessions   *)
(* (initialize_agent / agent.run) as the notebook records them.            *)
(*                                                                         *)
(* What the tools do is translated from their bodies.  The agent loop is   *)
(* the agent framework's; the model keeps of it only what the notebook's   *)
(* recorded transcripts show: Thought/Action -> tool call -> Observation   *)
(* -> ... -> Final Answer -> the value agent.run returns.  The framework's *)
(* handling of an unregistered tool name and of a step limit is recorded   *)
(* nowhere in the notebooks and is not modelled: the modelled generative   *)
(* model requests registered tools only, and MaxSteps only bounds the      *)
(* exploration.                                                            *)
(*                                                                         *)
(* Question-answering notebook: the cell that downloads the book, cleans   *)
(* up its newlines and saves it (CleanupSpec).  The splitter, the vector    *)
(* store and the question-answering chain are libraries' and are not       *)
(* modelled.                                                               *)
(***************************************************************************)
EXTENDS Naturals, Sequences, FiniteSets, TLC

(***************************************************************************)
(* Bounds of the exploration.                                              *)
(***************************************************************************)
\* Tool calls explored in one agent session.
MaxSteps == 2
\* Agents created in one notebook run (each by an initialize_agent cell).
MaxAgents == 2
\* Characters of a downloaded text.
MaxLen == 5

(***************************************************************************)
(* Python values.  A tool's return value carries its Python type, so that  *)
(* "returns a string" is a property of the code and not of the notation.   *)
(***************************************************************************)
StrV(s) == [type |-> "str", val |-> s]
ListV(l) == [type |-> "list", val |-> l]

\* The outcome of calling a Python function: it returns a value or raises.
Return(v) == [kind |-> "return", value |-> v]
Raise(e) == [kind |-> "raise", exc |-> e]

(***************************************************************************)
(* HTML as BeautifulSoup sees it: a page is the sequence of its elements   *)
(* in document order.  cls is the class attribute, cut into fragments      *)
(* whose concatenation is the attribute's value; attrs are the other       *)
(* attributes; text is the element's text; html its markup; links (where   *)
(* present) are the hrefs of the anchors inside the element.               *)
(***************************************************************************)
Tile(href, title) ==
    [cls |-> <<"tf-promo-tile">>, attrs |-> [href |-> href, title |-> title],
     text |-> title, html |-> "<a class=\"tf-promo-tile\">" \o title \o "</a>"]
TileNoHref(title) ==
    [cls |-> <<"tf-promo-tile">>, attrs |-> [title |-> title],
     text |-> title, html |-> "<a class=\"tf-promo-tile\">" \o title \o "</a>"]
Episode(href, name) ==
    [cls |-> <<"EpisodeListItem_title", "__PkSzj">>, attrs |-> <<>>,
     text |-> name, links |-> {href},
     html |-> "<h3 class=\"EpisodeListItem_title__PkSzj\"><a href=\"" \o href
                 \o "\">" \o name \o "</a></h3>"]
Song(title) ==
    [cls |-> <<"SongTitle", "__x">>, attrs |-> <<>>, text |-> title,
     html |-> "<h4 class=\"SongTitle__x\">" \o title \o "</h4>"]
Artist(name) ==
    [cls |-> <<"ArtistSub", "title__y">>, attrs |-> <<>>, text |-> name,
     html |-> "<a class=\"ArtistSubtitle__y\">" \o name \o "</a>"]
Para(txt) ==
    [cls |-> <<"x", "SongTitle">>, attrs |-> <<>>, text |-> txt,
     html |-> "<p class=\"xSongTitle\">" \o txt \o "</p>"]

\* The pages the modelled web serves.
EmptyPage == <<>>
SearchPage == <<Tile("/show/greys-anatomy", "Grey's Anatomy"), Tile("/show/er", "ER")>>
BrokenSearchPage == <<TileNoHref("Grey's Anatomy")>>
MixedSearchPage == <<Para("Shows"), Tile("/show/er", "ER"), TileNoHref("Grey's Anatomy")>>
SeasonPage ==
    <<Episode("/show/greys-anatomy/season-1/239", "S1 E2"), Para("ad"),
      Episode("/show/greys-anatomy/season-1/240", "S1 E3")>>
EpisodePage == <<Song("Wishful Thinking"), Artist("Lisa Loeb"), Song("Fools Like Me")>>
FullEpisodePage ==
    <<Para("Songs"), Song("Wishful Thinking"), Artist("Lisa Loeb"),
      Song("Fools Like Me"), Artist("Tegan and Sara"), Artist("Get Set Go")>>
ErrorPage == <<Para("Not Found")>>
Pages ==
    {EmptyPage, SearchPage, BrokenSearchPage, MixedSearchPage, SeasonPage,
     EpisodePage, FullEpisodePage, ErrorPage}

(***************************************************************************)
(* requests.get: a response (any status, with a body) or an exception.     *)
(***************************************************************************)
Response(status, body) == [kind |-> "response", status |-> status, text |-> body]
Statuses == {200, 404}
FetchOutcomes ==
    {Response(st, p) : st \in Statuses, p \in Pages}
        \cup {[kind |-> "ConnectionError"], [kind |-> "Timeout"]}
FetchFailed(f) == f.kind # "response" \/ f.status \notin 200..299

(***************************************************************************)
(* BeautifulSoup selectors, on the class attribute's fragments.            *)
(***************************************************************************)
\* Whether element e matches the CSS selector:
\*   .tf-promo-tile                      e carries the class tf-promo-tile
\*   [class*='EpisodeListItem_title']    e's class attribute contains it
\*   [class^='SongTitle'], [class^='ArtistSub']   the attribute starts with it
Matches(e, selector) ==
    CASE selector = ".tf-promo-tile" -> e.cls = <<"tf-promo-tile">>
      [] selector = "[class*='EpisodeListItem_title']" ->
            \E i \in 1..Len(e.cls) : e.cls[i] = "EpisodeListItem_title"
      [] selector = "[class^='SongTitle']" ->
            Len(e.cls) > 0 /\ e.cls[1] = "SongTitle"
      [] selector = "[class^='ArtistSub']" ->
            Len(e.cls) > 0 /\ e.cls[1] = "ArtistSub"

\* soup.select(selector): every match, in document order.
Select(page, selector) ==
    LET Test(e) == Matches(e, selector) IN SelectSeq(page, Test)
None == [type |-> "NoneType"]
\* The last match instead of the first (soup.select(selector)[-1]), or None.
SelectOneLast(page, selector) ==
    LET m == Select(page, selector) IN IF m = <<>> THEN None ELSE m[Len(m)]
\* soup.select_one(selector): the first match, or None.
SelectOne(page, selector) ==
    LET m == Select(page, selector) IN IF m = <<>> THEN None ELSE m[1]

\* sep.join(strs)
RECURSIVE Join(_, _)
Join(strs, sep) ==
    IF strs = <<>> THEN ""
    ELSE IF Len(strs) = 1 THEN strs[1]
    ELSE strs[1] \o sep \o Join(Tail(strs), sep)

\* str(list of elements): the elements' markup as a Python list prints it.
StrOfElements(elements) ==
    "[" \o Join([i \in 1..Len(elements) |-> elements[i].html], ", ") \o "]"

\* zip(titles, artists): pairs, as many as the shorter has.
Min(a, b) == IF a <= b THEN a ELSE b
Zip(titles, artists) ==
    [i \in 1..Min(Len(titles), Len(artists)) |-> <<titles[i], artists[i]>>]

\* json.dumps of a list of {'artist': ..., 'title': ...} records (the modelled
\* texts hold no character JSON escapes).
JsonDumps(results) ==
    "[" \o Join([i \in 1..Len(results) |->
                    "{\"artist\": \"" \o results[i].artist
                        \o "\", \"title\": \"" \o results[i].title \o "\"}"],
                ", ") \o "]"

(***************************************************************************)
(* The three tools.  fetch is what requests.get does for the tool's URL:   *)
(* the tools pass no timeout, check no status and catch no exception, so   *)
(* an exception of requests.get leaves the tool, and a response of any     *)
(* status is parsed like a page.                                           *)
(***************************************************************************)
\* The URL tunefind_search requests; the other tools request their input.
SearchUrl(query) == "https://www.tunefind.com/search/site?q=" \o query

\* link[name] on what select_one returned: a TypeError on None, a KeyError
\* on an element without the attribute.
Subscript(link, name) ==
    IF link = None THEN Raise("TypeError")
    ELSE IF name \notin DOMAIN link.attrs THEN Raise("KeyError")
    ELSE Return(link.attrs[name])

tunefind_search(query, fetch) ==
    IF fetch.kind # "response" THEN Raise(fetch.kind)
    ELSE LET link == SelectOne(fetch.text, ".tf-promo-tile")
             href == Subscript(link, "href")
             title == Subscript(link, "title")
         IN  IF href.kind = "raise" THEN href
             ELSE IF title.kind = "raise" THEN title
             ELSE Return(StrV(title.value \o " can be found at "
                                \o "https://www.tunefind.com" \o href.value))

\* The tool with select_one in place of select: str() of the first match.
get_shows_from_season_first(url, fetch) ==
    IF fetch.kind # "response" THEN Raise(fetch.kind)
    ELSE LET element == SelectOne(fetch.text, "[class*='EpisodeListItem_title']")
         IN  Return(StrV(IF element = None THEN "None" ELSE element.html))

get_shows_from_season(url, fetch) ==
    IF fetch.kind # "response" THEN Raise(fetch.kind)
    ELSE LET elements == Select(fetch.text, "[class*='EpisodeListItem_title']")
         IN  Return(StrV(StrOfElements(elements)))

\* The comprehension written "for a, t in zip(titles, artists)".
SongResultsSwapped(page) ==
    LET titles == Select(page, "[class^='SongTitle']")
        artists == Select(page, "[class^='ArtistSub']")
        pairs == Zip(titles, artists)
    IN  [i \in 1..Len(pairs) |->
            [artist |-> pairs[i][1].text, title |-> pairs[i][2].text]]

\* results = [{'artist': a.text, 'title': t.text} for t, a in zip(titles, artists)]
SongResults(page) ==
    LET titles == Select(page, "[class^='SongTitle']")
        artists == Select(page, "[class^='ArtistSub']")
        pairs == Zip(titles, artists)
    IN  [i \in 1..Len(pairs) |->
            [artist |-> pairs[i][2].text, title |-> pairs[i][1].text]]

\* The tool with its last line changed to "return results".
get_songs_from_episode_unserialized(url, fetch) ==
    IF fetch.kind # "response" THEN Raise(fetch.kind)
    ELSE Return(ListV(SongResults(fetch.text)))

get_songs_from_episode(url, fetch) ==
    IF fetch.kind # "response" THEN Raise(fetch.kind)
    ELSE Return(StrV(JsonDumps(SongResults(fetch.text))))

ToolNames == {"tunefind_search", "get_shows_from_season", "get_songs_from_episode"}

\* Every tool taking its input for a path on the site.
ToolUrlOnSite(name, input) ==
    IF name = "tunefind_search" THEN SearchUrl(input)
    ELSE "https://www.tunefind.com" \o input

\* Calling the tool of that name: the URL it requests and what it does.
ToolUrl(name, input) ==
    IF name = "tunefind_search" THEN SearchUrl(input) ELSE input
RunTool(name, input, fetch) ==
    CASE name = "tunefind_search" -> tunefind_search(input, fetch)
      [] name = "get_shows_from_season" -> get_shows_from_season(input, fetch)
      [] name = "get_songs_from_episode" -> get_songs_from_episode(input, fetch)

(***************************************************************************)
(* The newline cleanup of the downloaded book.  A text is the sequence of  *)
(* its characters.                                                         *)
(***************************************************************************)
Chars == {"\r", "\n", "a", "b"}
RECURSIVE TextsOfLen(_)
TextsOfLen(n) ==
    IF n = 0 THEN {<<>>}
    ELSE {Append(t, c) : t \in TextsOfLen(n - 1), c \in Chars}
\* What response.content.decode("utf-8") may be.
Texts == UNION {TextsOfLen(n) : n \in 0..MaxLen}

\* text.replace("\r", "")
IsNotCarriageReturn(c) == c # "\r"
ReplaceCarriageReturns(t) == SelectSeq(t, IsNotCarriageReturn)

\* Where the pattern "\n(?=[^\n])" matches: at a newline that a character
\* other than a newline follows (the lookahead consumes nothing).
MatchesAt(t, i) == t[i] = "\n" /\ i < Len(t) /\ t[i + 1] # "\n"

\* The pattern written without the lookahead, "\n[^\n]": the match takes the
\* following character with it.
RECURSIVE SubNewlineAndNext(_)
SubNewlineAndNext(t) ==
    IF t = <<>> THEN <<>>
    ELSE IF MatchesAt(t, 1) THEN SubNewlineAndNext(Tail(Tail(t)))
    ELSE <<Head(t)>> \o SubNewlineAndNext(Tail(t))

\* re.sub("\n(?=[^\n])", "", t): the text scanned from the left, every match
\* replaced by the empty string.
RECURSIVE SubNewlines(_)
SubNewlines(t) ==
    IF t = <<>> THEN <<>>
    ELSE IF MatchesAt(t, 1) THEN SubNewlines(Tail(t))
    ELSE <<Head(t)>> \o SubNewlines(Tail(t))

\* The two cleanup statements, one after the other.
Cleanup(t) == SubNewlines(ReplaceCarriageReturns(t))

(***************************************************************************)
(* The notebook's agent sessions.                                          *)
(*   registry    the tools list the current agent was initialized with     *)
(*   pc          where the session is: idle, awaiting_thought, tool_call,  *)
(*               final_answer, finished (agent.run returned), raised (an   *)
(*               exception left the tool)                                  *)
(*   transcript  the session's steps as the chain prints them: the action  *)
(*               and action_input the generative model wrote, then the     *)
(*               observation (None until the tool has returned)            *)
(*   answer      the text of the model's "Final Answer:", None before it   *)
(*   invoked     the tool calls made in the session, in order              *)
(*   requested   the URLs the session's tools passed to requests.get       *)
(*   last        the most recent tool call: tool, input, fetch, result     *)
(*   result      what agent.run returned, None until it has                *)
(*   lists       the Python list objects the cells' list displays created, *)
(*               in order of creation; a list is referred to by its index  *)
(*   tools       the list the global name tools is bound to                *)
(*   agents      the agents created so far, each the reference to the      *)
(*               list it was initialized with; the last is the global      *)
(*               name agent                                                *)
(* The cell of the question-answering notebook that prepares the book:     *)
(*   cell        where the cell is: not_run, downloaded, replaced (the      *)
(*               carriage returns are gone), cleaned, saved                *)
(*   content     the downloaded text, decoded                              *)
(*   text        the Python variable text                                  *)
(*   book_txt    what was written to book.txt, None before                 *)
(***************************************************************************)
VARIABLES registry, pc, transcript, answer, invoked, requested, last, result,
          lists, tools, agents, cell, content, text, book_txt

vars == <<registry, pc, transcript, answer, invoked, requested, last, result,
          lists, tools, agents, cell, content, text, book_txt>>
bookVars == <<cell, content, text, book_txt>>
agentVars == <<registry, pc, transcript, answer, invoked, requested, last, result,
               lists, tools, agents>>

\* The tools list agent number i holds.
AgentTools(i) == lists[agents[i]]

\* The tools lists the notebook builds agents from.
Registries ==
    {<<"tunefind_search">>,
     <<"tunefind_search", "get_shows_from_season">>,
     <<"tunefind_search", "get_shows_from_season", "get_songs_from_episode">>}
Registered(name) == \E i \in 1..Len(registry) : registry[i] = name

\* What the generative model may write as a tool's input, and as an answer.
Inputs ==
    {"Grey's Anatomy",
     "https://www.tunefind.com/show/greys-anatomy/season-1",
     "https://www.tunefind.com/show/greys-anatomy/season-1/240"}
Answers == {"Wishful Thinking", "I don't know"}

AgentsNotStarted ==
    /\ registry = <<"tunefind_search">>
    /\ pc = "idle"
    /\ transcript = <<>>
    /\ answer = None
    /\ invoked = <<>>
    /\ requested = <<>>
    /\ last = None
    /\ result = None
    /\ lists = << <<"tunefind_search">> >>
    /\ tools = 1
    /\ agents = <<1>>

BookNotDownloaded ==
    /\ cell = "not_run"
    /\ content = <<>>
    /\ text = <<>>
    /\ book_txt = None

Init == AgentsNotStarted /\ BookNotDownloaded

\* tools = [...] written as "tools += [...]": the list the name is bound to
\* is extended in place and no new list is made.
ExtendToolsInPlace(new) ==
    /\ lists' = [lists EXCEPT ![tools] = new]
    /\ tools' = tools

\* tools = [tunefind_search, ...]: the list display makes a new list and the
\* name tools is bound to it; the list it was bound to before is not touched.
BindTools(new) ==
    /\ lists' = Append(lists, new)
    /\ tools' = Len(lists) + 1

\* A cell that builds an agent:
\*   tools = [...]
\*   agent = initialize_agent(tools, llm, agent="chat-zero-shot-react-description")
InitializeAgent(new) ==
    /\ pc \in {"idle", "finished", "raised"}
    /\ Len(agents) < MaxAgents
    /\ BindTools(new)
    /\ agents' = Append(agents, tools')
    /\ registry' = new
    /\ pc' = "idle"
    /\ transcript' = <<>>
    /\ answer' = None
    /\ invoked' = <<>>
    /\ requested' = <<>>
    /\ last' = None
    /\ result' = None
    /\ UNCHANGED bookVars

\* result = agent.run(question): a new session of the current agent starts.
Run ==
    /\ pc \in {"idle", "finished", "raised"}
    /\ pc' = "awaiting_thought"
    /\ transcript' = <<>>
    /\ answer' = None
    /\ invoked' = <<>>
    /\ requested' = <<>>
    /\ last' = None
    /\ result' = None
    /\ UNCHANGED <<registry, lists, tools, agents>>
    /\ UNCHANGED bookVars

\* The model writes Thought + Action: {"action": name, "action_input": input}.
ModelRequestsTool(name, input) ==
    /\ pc = "awaiting_thought"
    /\ Len(transcript) < MaxSteps
    /\ Registered(name)
    /\ transcript' = Append(transcript,
                            [action |-> name, action_input |-> input,
                             observation |-> None])
    /\ pc' = "tool_call"
    /\ UNCHANGED <<registry, answer, invoked, requested, last, result, lists, tools, agents>>
    /\ UNCHANGED bookVars

\* A lookup that takes the registry's first tool whatever name was asked for.
CallFirstRegistered(step) == [tool |-> registry[1], input |-> step.action_input]

\* The call the chain makes for the step's action: the tool of that name,
\* on the action's input.
CallFor(step) == [tool |-> step.action, input |-> step.action_input]

\* The requested tool is called with the action's input; what it returns is
\* printed as the step's Observation.  An exception of the tool ends the
\* session.
InvokeTool(fetch) ==
    /\ pc = "tool_call"
    /\ LET n == Len(transcript)
           call == CallFor(transcript[n])
           res == RunTool(call.tool, call.input, fetch)
       IN  /\ invoked' = Append(invoked, call)
           /\ requested' = Append(requested, ToolUrl(call.tool, call.input))
           /\ last' = [tool |-> call.tool, input |-> call.input,
                       fetch |-> fetch, result |-> res]
           /\ IF res.kind = "return"
              THEN /\ transcript' = [transcript EXCEPT ![n].observation = res.value]
                   /\ pc' = "awaiting_thought"
              ELSE /\ transcript' = transcript
                   /\ pc' = "raised"
    /\ UNCHANGED <<registry, answer, result, lists, tools, agents>>
    /\ UNCHANGED bookVars

\* The model writes "Final Answer: a".
ModelFinalAnswer(a) ==
    /\ pc = "awaiting_thought"
    /\ answer' = a
    /\ pc' = "final_answer"
    /\ UNCHANGED <<registry, transcript, invoked, requested, last, result, lists, tools, agents>>
    /\ UNCHANGED bookVars

\* "> Finished chain.": agent.run returns the final answer's text.
Finish ==
    /\ pc = "final_answer"
    /\ result' = StrV(answer)
    /\ pc' = "finished"
    /\ UNCHANGED <<registry, transcript, answer, invoked, requested, last, lists, tools, agents>>
    /\ UNCHANGED bookVars

Next ==
    \/ \E new \in Registries : InitializeAgent(new)
    \/ Run
    \/ \E name \in ToolNames, input \in Inputs : ModelRequestsTool(name, input)
    \/ \E fetch \in FetchOutcomes : InvokeTool(fetch)
    \/ \E a \in Answers : ModelFinalAnswer(a)
    \/ Finish

Spec == Init /\ [][Next]_vars

(***************************************************************************)
(* The book-preparing cell: the download has returned some text; the cell  *)
(* then runs its three statements in order.                                *)
(***************************************************************************)
CleanupInit ==
    /\ AgentsNotStarted
    /\ cell = "downloaded"
    /\ content \in Texts
    /\ text = content
    /\ book_txt = None

\* text = text.replace("\r", "")
CleanCarriageReturns ==
    /\ cell = "downloaded"
    /\ text' = ReplaceCarriageReturns(text)
    /\ cell' = "replaced"
    /\ UNCHANGED <<content, book_txt>>
    /\ UNCHANGED agentVars

\* text = re.sub("\n(?=[^\n])", "", text)
CleanNewlines ==
    /\ cell = "replaced"
    /\ text' = SubNewlines(text)
    /\ cell' = "cleaned"
    /\ UNCHANGED <<content, book_txt>>
    /\ UNCHANGED agentVars

\* with open('book.txt', 'w') as f: f.write(text)
SaveBook ==
    /\ cell = "cleaned"
    /\ book_txt' = text
    /\ cell' = "saved"
    /\ UNCHANGED <<content, text>>
    /\ UNCHANGED agentVars

CleanupNext == CleanCarriageReturns \/ CleanNewlines \/ SaveBook

CleanupSpec == CleanupInit /\ [][CleanupNext]_vars

(***************************************************************************)
(* Properties.                                                             *)
(***************************************************************************)

\* C3: in a session in which the model requested one registered tool X with
\* input s and then gave the final answer a, the chain called X exactly once,
\* with exactly s, called nothing else, and agent.run returned exactly a.
C3_OneToolThenAnswer ==
    (pc = "finished" /\ Len(transcript) = 1) =>
        /\ invoked = <<[tool |-> transcript[1].action,
                        input |-> transcript[1].action_input]>>
        /\ result = StrV(answer)

C3_Witness ==
    /\ pc = "finished"
    /\ Len(registry) = 3
    /\ Len(transcript) = 1
    /\ transcript[1].action = "get_shows_from_season"
    /\ transcript[1].action_input = "https://www.tunefind.com/show/greys-anatomy/season-1"
    /\ Len(invoked) = 1
    /\ result = StrV("Wishful Thinking")

\* A tool has been called and requests.get failed for it.
FetchFailedInLastCall == last # None /\ FetchFailed(last.fetch)

\* What the tool returns for some page fetched with status 200.
IsOutputOfSuccessfulFetch(tool, v) ==
    \E p \in Pages : RunTool(tool, "", Response(200, p)) = Return(v)

\* C4 (as claimed): whenever the HTTP fetch of a tool call failed (connection
\* error, timeout, non-2xx response), the tool did not raise: it returned a
\* string, and one that reports the failure, so not one it also returns after
\* a successful fetch.
C4_FetchFailureYieldsErrorString ==
    FetchFailedInLastCall =>
        /\ last.result.kind = "return"
        /\ last.result.value.type = "str"
        /\ ~IsOutputOfSuccessfulFetch(last.tool, last.result.value)

\* The page gives the tool's scrape nothing, or a match without the attributes
\* the tool reads.
ScrapeEmptyOrMalformed(tool, page) ==
    CASE tool = "tunefind_search" ->
            LET link == SelectOne(page, ".tf-promo-tile")
            IN  link = None \/ {"href", "title"} \ DOMAIN link.attrs # {}
      [] tool = "get_shows_from_season" ->
            Select(page, "[class*='EpisodeListItem_title']") = <<>>
      [] tool = "get_songs_from_episode" ->
            \/ Select(page, "[class^='SongTitle']") = <<>>
            \/ Select(page, "[class^='ArtistSub']") = <<>>

\* What the tool returns for some page whose scrape is neither empty nor
\* malformed.
IsOutputOfGoodScrape(tool, v) ==
    \E p \in Pages : /\ ~ScrapeEmptyOrMalformed(tool, p)
                     /\ RunTool(tool, "", Response(200, p)) = Return(v)

\* C5 (as claimed): whenever the fetched page gave a tool an empty or malformed
\* scrape, the tool did not raise: it returned a string, and one that a
\* successful scrape does not produce.
C5_BadScrapeYieldsErrorString ==
    (/\ last # None
     /\ last.fetch.kind = "response"
     /\ ScrapeEmptyOrMalformed(last.tool, last.fetch.text)) =>
        /\ last.result.kind = "return"
        /\ last.result.value.type = "str"
        /\ ~IsOutputOfGoodScrape(last.tool, last.result.value)

\* C6: whatever a tool returns is a string, every observation of the
\* transcript is a string, and the observation of the step the most recent
\* tool call was made for is the very value that call returned.
C6_ToolReturnsAreStrings ==
    /\ \A i \in 1..Len(transcript) :
          transcript[i].observation # None =>
              transcript[i].observation.type = "str"
    /\ (last # None /\ last.result.kind = "return") =>
          /\ last.result.value.type = "str"
          /\ Len(invoked) \in 1..Len(transcript)
          /\ transcript[Len(invoked)].action = last.tool
          /\ transcript[Len(invoked)].observation = last.result.value

C6_Witness ==
    /\ last # None
    /\ last.tool = "get_songs_from_episode"
    /\ last.fetch.kind = "response"
    /\ SongResults(last.fetch.text) # <<>>
    /\ pc = "awaiting_thought"
    /\ transcript # <<>>
    /\ transcript[Len(transcript)].observation =
          StrV("[{\"artist\": \"Lisa Loeb\", \"title\": \"Wishful Thinking\"}]")

\* C17: no step changes the tools list of any agent that exists: not a step
\* of a session (model output, tool call, observation, final answer), and not
\* the creation of a later agent from another tools list.  The agent in use
\* works with the list it was created with.
C17_AgentToolsFixed ==
    [][/\ \A i \in 1..Len(agents) :
            /\ i \in 1..Len(agents')
            /\ lists'[agents'[i]] = lists[agents[i]]
       /\ registry' = lists'[agents'[Len(agents')]]]_vars

C17_Witness ==
    /\ Len(agents) = 2
    /\ AgentTools(1) = <<"tunefind_search">>
    /\ Len(AgentTools(2)) = 3
    /\ pc = "finished"
    /\ Len(invoked) = 2
    /\ invoked[2].tool = "get_songs_from_episode"

\* The links of the elements an observation of get_shows_from_season shows,
\* as URLs of the site.
LinksOf(e) == IF "links" \in DOMAIN e THEN e.links ELSE {}
ObservationHasLink(obs, url) ==
    \E p \in Pages :
        LET elements == Select(p, "[class*='EpisodeListItem_title']")
        IN  /\ obs = StrV(StrOfElements(elements))
            /\ \E i \in 1..Len(elements) : \E l \in LinksOf(elements[i]) :
                  url = "https://www.tunefind.com" \o l

TilePlaces(page) == {i \in 1..Len(page) : Matches(page[i], ".tf-promo-tile")}
\* The first of them in document order.
FirstTile(page) ==
    page[CHOOSE i \in TilePlaces(page) : \A j \in TilePlaces(page) : i <= j]

\* C21: when the page tunefind_search fetched holds one or more elements of
\* class tf-promo-tile (the first of them with the title and href the string
\* is built from), the tool returns "<title> can be found at
\* https://www.tunefind.com<href>" with the title and href of the first such
\* element in document order, whatever matches follow it.
C21_SearchReportsFirstMatch ==
    (/\ last # None
     /\ last.tool = "tunefind_search"
     /\ last.fetch.kind = "response"
     /\ TilePlaces(last.fetch.text) # {}
     /\ {"href", "title"} \subseteq DOMAIN FirstTile(last.fetch.text).attrs) =>
        LET first == FirstTile(last.fetch.text)
        IN  last.result =
                Return(StrV(first.attrs.title \o " can be found at https://www.tunefind.com"
                                \o first.attrs.href))

C21_Witness ==
    /\ last # None
    /\ last.tool = "tunefind_search"
    /\ last.fetch.kind = "response"
    /\ last.fetch.text = MixedSearchPage
    /\ Cardinality(TilePlaces(last.fetch.text)) = 2
    /\ last.result = Return(StrV("ER can be found at https://www.tunefind.com/show/er"))
    /\ transcript[Len(invoked)].observation = last.result.value

\* C26: with T the elements whose class starts with SongTitle and A those
\* whose class starts with ArtistSub, each in document order, the string
\* get_songs_from_episode returns is the JSON text of exactly min(|T|, |A|)
\* records, the i-th {artist: text of A[i], title: text of T[i]}; surplus
\* elements of the longer list are dropped and nothing is raised, and with T
\* or A empty the string is "[]".
C26_SongsPairedByPosition ==
    (/\ last # None
     /\ last.tool = "get_songs_from_episode"
     /\ last.fetch.kind = "response") =>
        LET T == Select(last.fetch.text, "[class^='SongTitle']")
            A == Select(last.fetch.text, "[class^='ArtistSub']")
            n == IF Len(T) <= Len(A) THEN Len(T) ELSE Len(A)
            records == [i \in 1..n |-> [artist |-> A[i].text, title |-> T[i].text]]
        IN  /\ last.result = Return(StrV(JsonDumps(records)))
            /\ (T = <<>> \/ A = <<>>) => last.result = Return(StrV("[]"))

C26_Witness ==
    /\ last # None
    /\ last.tool = "get_songs_from_episode"
    /\ last.fetch.kind = "response"
    /\ last.fetch.text = FullEpisodePage
    /\ Len(Select(last.fetch.text, "[class^='SongTitle']")) = 2
    /\ Len(Select(last.fetch.text, "[class^='ArtistSub']")) = 3
    /\ last.result =
          Return(StrV("[{\"artist\": \"Lisa Loeb\", \"title\": \"Wishful Thinking\"}, "
                        \o "{\"artist\": \"Tegan and Sara\", \"title\": \"Fools Like Me\"}]"))

\* The places of the page's elements whose class attribute contains
\* EpisodeListItem_title, and the k-th of them in document order.
EpisodePlaces(page) ==
    {i \in 1..Len(page) : Matches(page[i], "[class*='EpisodeListItem_title']")}
KthEpisodePlace(page, k) ==
    CHOOSE i \in EpisodePlaces(page) :
        Cardinality({j \in EpisodePlaces(page) : j < i}) = k - 1

\* C27: every call of a tool makes one HTTP GET, and get_shows_from_season
\* makes it of the url it was given; from the page it got, it returns the
\* string form of the list of all elements whose class attribute contains
\* EpisodeListItem_title, each once and in document order, which is "[]",
\* and no exception, when no element matches.
C27_SeasonListsAllEpisodes ==
    /\ Len(requested) = Len(invoked)
    /\ \A i \in 1..Len(invoked) :
          invoked[i].tool = "get_shows_from_season" => requested[i] = invoked[i].input
    /\ (/\ last # None
        /\ last.tool = "get_shows_from_season"
        /\ last.fetch.kind = "response") =>
          LET page == last.fetch.text
              n == Cardinality(EpisodePlaces(page))
              matched == [k \in 1..n |-> page[KthEpisodePlace(page, k)]]
          IN  /\ last.result = Return(StrV(StrOfElements(matched)))
              /\ n = 0 => last.result = Return(StrV("[]"))

C27_Witness ==
    /\ last # None
    /\ last.tool = "get_shows_from_season"
    /\ last.input = "https://www.tunefind.com/show/greys-anatomy/season-1"
    /\ requested = <<"https://www.tunefind.com/show/greys-anatomy/season-1">>
    /\ last.fetch.kind = "response"
    /\ last.fetch.text = SeasonPage
    /\ last.result =
          Return(StrV("[<h3 class=\"EpisodeListItem_title__PkSzj\">"
                        \o "<a href=\"/show/greys-anatomy/season-1/239\">S1 E2</a></h3>, "
                        \o "<h3 class=\"EpisodeListItem_title__PkSzj\">"
                        \o "<a href=\"/show/greys-anatomy/season-1/240\">S1 E3</a></h3>]"))

\* The characters of t other than carriage returns, in their order.
OtherPlaces(t) == {i \in 1..Len(t) : t[i] # "\r"}
WithoutCarriageReturns(t) ==
    [k \in 1..Cardinality(OtherPlaces(t)) |->
        t[CHOOSE i \in OtherPlaces(t) :
              Cardinality({j \in OtherPlaces(t) : j < i}) = k - 1]]

\* t as its maximal runs of one character: the character and the run's length.
RECURSIVE Runs(_)
Runs(t) ==
    IF t = <<>> THEN <<>>
    ELSE LET rest == Runs(Tail(t))
         IN  IF rest # <<>> /\ rest[1].ch = Head(t)
             THEN <<[ch |-> Head(t), n |-> rest[1].n + 1]>> \o Tail(rest)
             ELSE <<[ch |-> Head(t), n |-> 1]>> \o rest

\* Every run of newlines that another character follows made one shorter.
ShortenNewlineRuns(runs) ==
    [k \in 1..Len(runs) |->
        IF runs[k].ch = "\n" /\ k < Len(runs)
        THEN [ch |-> "\n", n |-> runs[k].n - 1]
        ELSE runs[k]]

\* The text the runs spell.
RECURSIVE Expand(_)
Expand(runs) ==
    IF runs = <<>> THEN <<>>
    ELSE [i \in 1..runs[1].n |-> runs[1].ch] \o Expand(Tail(runs))

\* C28: once the cell has cleaned the newlines, text holds no carriage
\* return; it is the downloaded text without its carriage returns in which
\* each maximal run of n >= 1 newlines that another character follows has
\* n - 1 newlines, a run of newlines at the end is as it was, and all other
\* characters are kept in order; and the cleanup applied to text once more
\* changes it exactly when text still holds a newline that a character other
\* than a newline follows (which a run of two or more newlines leaves).
C28_CleanupShortensNewlineRuns ==
    cell \in {"cleaned", "saved"} =>
        /\ \A i \in 1..Len(text) : text[i] # "\r"
        /\ text = Expand(ShortenNewlineRuns(Runs(WithoutCarriageReturns(content))))
        /\ (\E i \in 1..Len(text) : text[i] = "\n" /\ i < Len(text) /\ text[i + 1] # "\n")
              <=> Cleanup(text) # text
        /\ (\E k \in 1..Len(Runs(WithoutCarriageReturns(content))) :
               LET runs == Runs(WithoutCarriageReturns(content))
               IN  runs[k].ch = "\n" /\ runs[k].n >= 2 /\ k < Len(runs))
              => Cleanup(text) # text

C28_Witness ==
    /\ cell = "cleaned"
    /\ content = <<"\r", "\n", "\n", "b", "\n">>
    /\ text = <<"\n", "b", "\n">>
    /\ Cleanup(text) = <<"b", "\n">>
====
